---- MODULE Spec2Model ----
(***************************************************************************)
(* Graph traversal and analysis engine of code-memory-explorer:            *)
(*   QdrantService.get_graph_data  (backend/services/qdrant_service.py)    *)
(*   get_graph_data, get_graph_clusters, find_paths (backend/api/graph.py) *)
(*   get_entity, get_entity_relations          (backend/api/entities.py)   *)
(* Each request is a small state machine over a read-only store; the       *)
(* loops of the handlers advance one iteration per step.                   *)
(***************************************************************************)
EXTENDS Integers, Sequences, FiniteSets, TLC

VARIABLES
    store_entities,   \* entity names the store holds, in scroll order
    store_relations,  \* relation records the store holds, in scroll order
    sg,               \* subgraph request: QdrantService.get_graph_data + endpoint
    cl,               \* cluster request: get_graph_clusters
    pf,               \* path request: find_paths
    lk,               \* direct lookup request: get_entity / get_entity_relations
    store_collections, \* collection names the store lists, in listing order
    store_hits,       \* scored points the store's similarity query ranks, in its order
    sr,               \* search request: search of api/search.py
    mg,               \* ConnectionManager of api/websocket.py and the sockets of its handlers
    bc                \* broadcast request: broadcast_update of api/websocket.py

vars == <<store_entities, store_relations, sg, cl, pf, lk, store_collections, store_hits, sr,
          mg, bc>>

(***************************************************************************)
(* Bounds of the model.                                                    *)
(***************************************************************************)
MaxRels == 3        \* relations held by a small store
MaxDepth == 3       \* GraphRequest.depth values tried: 1..MaxDepth
MaxLimit == 2       \* GraphRequest.limit values tried: 1..MaxLimit and 10
MaxPathDepth == 4   \* find_paths max_depth values tried: 0..MaxPathDepth
WidePairs == 11     \* two-entity components of the wide stores

(***************************************************************************)
(* Program constants.                                                      *)
(***************************************************************************)
RelationPageCap == 1000   \* get_relations: scroll(limit=1000)
ClusterFetchLimit == 500  \* get_graph_clusters: get_graph_data(limit=500)
TopClusters == 10         \* clusters[:10]
SampleNodes == 20         \* cluster_nodes[:20]
MaxPaths == 5             \* while queue and len(paths) < 5
MinPathDepth == 1         \* max_depth: Query(5, ge=1, le=10)
MaxPathDepthAllowed == 10 \* max_depth: Query(5, ge=1, le=10)

(***************************************************************************)
(* Helpers on sequences and sets.                                          *)
(***************************************************************************)
Min(a, b) == IF a <= b THEN a ELSE b

Range(s) == {s[i] : i \in DOMAIN s}

\* s[:n]
Take(s, n) == SubSeq(s, 1, Min(n, Len(s)))

\* every listing of a finite set without repetition (iteration order of a Python set)
Orderings(S) == {q \in [1..Cardinality(S) -> S] : \A i, j \in DOMAIN q : i # j => q[i] # q[j]}

(***************************************************************************)
(* The store.  An entity is identified by its name (the join key); a       *)
(* relation is a record of two names and a type; endpoints need not name   *)
(* an entity of the store.                                                 *)
(***************************************************************************)
Names == {"A", "B", "C", "D"}

NameOrder == <<"A", "B", "C", "D">>

NoEntity == ""

Rel(f, t, ty) == [from_entity |-> f, to_entity |-> t, relation_type |-> ty]

\* Relations a small store draws from, in scroll order.  The first three are
\* the relations of the spec's scenario; the rest add a cycle, a self-loop,
\* a parallel edge of another type, a second route to C and a two-cycle.
RelationPool ==
    << Rel("A", "B", "calls"), Rel("B", "C", "calls"), Rel("A", "D", "imports"),
       Rel("C", "A", "uses"), Rel("A", "A", "calls"), Rel("A", "B", "imports"),
       Rel("D", "C", "calls"), Rel("B", "A", "calls") >>

RelationChoices == {I \in SUBSET (1..Len(RelationPool)) : Cardinality(I) <= MaxRels}

PickRelations(I) ==
    LET F[k \in 0..Len(RelationPool)] ==
            IF k = 0 THEN <<>>
            ELSE IF k \in I THEN Append(F[k - 1], RelationPool[k]) ELSE F[k - 1]
    IN F[Len(RelationPool)]

\* Which names resolve: any name may be missing from the store while
\* relations still mention it.
EntitySets == SUBSET Names

PickEntities(E) == SelectSeq(NameOrder, LAMBDA n : n \in E)

EntityTypeOf(n) ==
    CASE n = "A" -> "class"
      [] n \in {"B", "C"} -> "function"
      [] OTHER -> "file"

SmallStore ==
    \E E \in EntitySets, I \in RelationChoices :
        /\ store_entities = PickEntities(E)
        /\ store_relations = PickRelations(I)

\* A store with one relation more than a scroll page holds: a page of
\* relations between C and D, then the relation A -> B.
LargeRelations ==
    [i \in 1..RelationPageCap |-> Rel("C", "D", "calls")] \o <<Rel("A", "B", "calls")>>

LargeStore ==
    /\ store_entities = NameOrder
    /\ store_relations = LargeRelations

\* A store in which one name has more relations than a scroll page holds: a
\* page of relations between C and D, then the relation C -> A.
HubRelations ==
    [i \in 1..RelationPageCap |-> Rel("C", "D", "calls")] \o <<Rel("C", "A", "calls")>>

HubStore ==
    /\ store_entities = NameOrder
    /\ store_relations = HubRelations

\* QdrantService.get_entity: the entity of that name, or None (here NoEntity)
Resolves(name) == name \in Range(store_entities)

GetEntity(name) == IF Resolves(name) THEN name ELSE NoEntity

\* QdrantService.get_relations: all relations, or those with entity_name at
\* either end; one scroll page of at most 1000 points
GetRelations(entity_name) ==
    Take(IF entity_name # NoEntity
         THEN SelectSeq(store_relations,
                        LAMBDA r : r.from_entity = entity_name \/ r.to_entity = entity_name)
         ELSE store_relations,
         RelationPageCap)

\* the scroll of get_graph_data's no-focus branch: metadata chunks, filtered by
\* entity type when a filter is given, at most `limit` of them
ScrollEntities(entity_types, limit) ==
    Take(IF entity_types # {}
         THEN SelectSeq(store_entities, LAMBDA n : EntityTypeOf(n) \in entity_types)
         ELSE store_entities,
         limit)

Idle == [pc |-> "idle"]

\* no search is asked for
NoSearch ==
    /\ store_collections = <<>>
    /\ store_hits = <<>>
    /\ sr = Idle

\* no socket is opened and nothing is broadcast
NoSockets ==
    /\ mg = Idle
    /\ bc = Idle

(***************************************************************************)
(* Subgraph extractor: QdrantService.get_graph_data and the endpoint       *)
(* get_graph_data of api/graph.py that turns its result into nodes and     *)
(* edges.                                                                  *)
(***************************************************************************)
TypeFilters == {{}, {"function"}}

Limits == (1..MaxLimit) \cup {10}

SgRequest(f, t, d, l) ==
    [pc |-> "start", entity |-> f, entity_types |-> t, depth |-> d, limit |-> l,
     entities |-> {}, relations |-> <<>>, to_visit |-> {}, visited |-> {},
     current_depth |-> 0, ret_entities |-> <<>>, nodes |-> <<>>, edges |-> <<>>,
     status |-> "pending"]

\* WalkGuard without the test of the limit, and without the test of the depth
WalkGuardNoLimit(s) == s.to_visit # {} /\ s.current_depth < s.depth

WalkGuardNoDepth(s) == s.to_visit # {} /\ Cardinality(s.entities) < s.limit

\* while to_visit and current_depth < depth and len(entities) < limit
WalkGuard(s) ==
    /\ s.to_visit # {}
    /\ s.current_depth < s.depth
    /\ Cardinality(s.entities) < s.limit

\* the endpoint of rel the walk moves on to from current
OtherEnd(rel, current) ==
    IF rel.from_entity = current THEN rel.to_entity ELSE rel.from_entity

\* Popped that leaves the name in the set
PoppedKept(to_visit, current) == to_visit

\* to_visit.pop(): the set without the name handed out
Popped(to_visit, current) == to_visit \ {current}

\* if entity: ... to_visit = {entity}
WalkBegin ==
    /\ sg.pc = "start"
    /\ sg.entity # NoEntity
    /\ sg' = [sg EXCEPT !.pc = "walk", !.to_visit = {sg.entity}]
    /\ UNCHANGED <<store_entities, store_relations, cl, pf, lk, store_collections, store_hits, sr, mg, bc>>

\* current_entity = to_visit.pop(); if current_entity in visited: continue
WalkSkip ==
    /\ sg.pc = "walk"
    /\ WalkGuard(sg)
    /\ \E current \in sg.to_visit :
        /\ current \in sg.visited
        /\ sg' = [sg EXCEPT !.to_visit = Popped(sg.to_visit, current)]
    /\ UNCHANGED <<store_entities, store_relations, cl, pf, lk, store_collections, store_hits, sr, mg, bc>>

\* one iteration of the walk on a name not yet visited
WalkVisit ==
    /\ sg.pc = "walk"
    /\ WalkGuard(sg)
    /\ \E current \in sg.to_visit :
        /\ current \notin sg.visited
        /\ LET entity_obj == GetEntity(current)
               entity_relations == GetRelations(current)
           IN sg' = [sg EXCEPT
                  !.visited = sg.visited \cup {current},
                  !.entities = IF entity_obj # NoEntity
                               THEN sg.entities \cup {entity_obj}
                               ELSE sg.entities,
                  !.relations = sg.relations \o entity_relations,
                  !.to_visit = Popped(sg.to_visit, current)
                               \cup {OtherEnd(r, current) : r \in Range(entity_relations)},
                  !.current_depth = sg.current_depth + 1]
    /\ UNCHANGED <<store_entities, store_relations, cl, pf, lk, store_collections, store_hits, sr, mg, bc>>

\* the loop ends; entity objects are fetched for the collected names, in the
\* iteration order of the set
WalkReturn ==
    /\ sg.pc = "walk"
    /\ ~WalkGuard(sg)
    /\ \E order \in Orderings(sg.entities) :
        sg' = [sg EXCEPT !.pc = "respond",
                         !.ret_entities = SelectSeq(order, LAMBDA n : GetEntity(n) # NoEntity)]
    /\ UNCHANGED <<store_entities, store_relations, cl, pf, lk, store_collections, store_hits, sr, mg, bc>>

\* else: one scroll of entities and all relations
ScrollAll ==
    /\ sg.pc = "start"
    /\ sg.entity = NoEntity
    /\ sg' = [sg EXCEPT !.pc = "respond",
                        !.ret_entities = ScrollEntities(sg.entity_types, sg.limit),
                        !.relations = GetRelations(NoEntity)]
    /\ UNCHANGED <<store_entities, store_relations, cl, pf, lk, store_collections, store_hits, sr, mg, bc>>

\* if not entities: return GraphData(nodes=[], edges=[], ...)
RespondEmpty ==
    /\ sg.pc = "respond"
    /\ sg.ret_entities = <<>>
    /\ sg' = [sg EXCEPT !.pc = "done", !.nodes = <<>>, !.edges = <<>>, !.status = "ok"]
    /\ UNCHANGED <<store_entities, store_relations, cl, pf, lk, store_collections, store_hits, sr, mg, bc>>

\* EdgeKept with "or" for "and"
EdgeKeptEither(relation, entity_names) ==
    relation.from_entity \in entity_names \/ relation.to_entity \in entity_names

\* only include edges where both nodes exist
EdgeKept(relation, entity_names) ==
    relation.from_entity \in entity_names /\ relation.to_entity \in entity_names

GraphEdge(relation) ==
    [source |-> relation.from_entity, target |-> relation.to_entity,
     relation_type |-> relation.relation_type]

RespondGraph ==
    /\ sg.pc = "respond"
    /\ sg.ret_entities # <<>>
    /\ LET entity_names == Range(sg.ret_entities)
       IN sg' = [sg EXCEPT
              !.pc = "done",
              !.nodes = sg.ret_entities,
              !.edges = LET kept == SelectSeq(sg.relations,
                                              LAMBDA r : EdgeKept(r, entity_names))
                        IN [i \in DOMAIN kept |-> GraphEdge(kept[i])],
              !.status = "ok"]
    /\ UNCHANGED <<store_entities, store_relations, cl, pf, lk, store_collections, store_hits, sr, mg, bc>>

InitSubgraph ==
    /\ SmallStore \/ LargeStore \/ HubStore
    /\ \E f \in Names \cup {NoEntity}, t \in TypeFilters, d \in 1..MaxDepth, l \in Limits :
        sg = SgRequest(f, t, d, l)
    /\ cl = Idle
    /\ pf = Idle
    /\ lk = Idle
    /\ NoSearch
    /\ NoSockets

NextSubgraph ==
    \/ WalkBegin
    \/ WalkSkip
    \/ WalkVisit
    \/ WalkReturn
    \/ ScrollAll
    \/ RespondEmpty
    \/ RespondGraph

SpecSubgraph == InitSubgraph /\ [][NextSubgraph]_vars

(***************************************************************************)
(* Path finder: find_paths of api/graph.py.                                *)
(***************************************************************************)
PfRequest(s, t, d) ==
    [pc |-> "start", source |-> s, target |-> t, max_depth |-> d,
     adjacency |-> <<>>, queue |-> <<>>, visited |-> {}, paths |-> <<>>,
     status |-> "pending"]

\* max_depth: int = Query(5, ge=1, le=10): a value outside the range is
\* refused before the handler body runs
MaxDepthAccepted(d) == MinPathDepth <= d /\ d <= MaxPathDepthAllowed

\* EndpointsResolve without the test of the target
EndpointsResolveSourceOnly(s, t) == GetEntity(s) # NoEntity

\* if not source_entity: raise 404; if not target_entity: raise 404
EndpointsResolve(s, t) == GetEntity(s) # NoEntity /\ GetEntity(t) # NoEntity

\* AdjEdge that files every edge under the default relation type
AdjEdgeDefaultType(relation) == [to |-> relation.to_entity, type |-> "uses"]

\* {"to": relation.to_entity, "type": relation.relation_type}
AdjEdge(relation) == [to |-> relation.to_entity, type |-> relation.relation_type]

\* the edges out of n, in the order of the relation list
EdgesFrom(all_relations, n) ==
    LET out == SelectSeq(all_relations, LAMBDA r : r.from_entity = n)
    IN [i \in DOMAIN out |-> AdjEdge(out[i])]

\* BuildAdjacency that also lists every relation backwards
BuildAdjacencyBothWays(all_relations) ==
    LET ends == {r.from_entity : r \in Range(all_relations)}
                \cup {r.to_entity : r \in Range(all_relations)}
        Back(r) == [from_entity |-> r.to_entity, to_entity |-> r.from_entity,
                    relation_type |-> r.relation_type]
        both == all_relations \o [i \in DOMAIN all_relations |-> Back(all_relations[i])]
    IN [n \in ends |-> EdgesFrom(both, n)]

\* adjacency[relation.from_entity].append({"to": ..., "type": ...})
BuildAdjacency(all_relations) ==
    [n \in {r.from_entity : r \in Range(all_relations)} |-> EdgesFrom(all_relations, n)]

\* adjacency.get(current, [])
AdjacencyGet(adjacency, current) ==
    IF current \in DOMAIN adjacency THEN adjacency[current] ELSE <<>>

\* PathsGuard without the cap on the paths
PathsGuardNoCap(p) == p.queue # <<>>

\* while queue and len(paths) < 5
PathsGuard(p) == p.queue # <<>> /\ Len(p.paths) < MaxPaths

\* TooDeep with >= for >
TooDeepOffByOne(path, max_depth) == Len(path) >= max_depth

\* if len(path) > max_depth: continue
TooDeep(path, max_depth) == Len(path) > max_depth

\* EdgeFollowed of a textbook search: only heads not seen before
EdgeFollowedIfNew(next_node, visited, path, max_depth) == next_node \notin visited

\* if next_node not in visited or len(path) < max_depth
EdgeFollowed(next_node, visited, path, max_depth) ==
    next_node \notin visited \/ Len(path) < max_depth

\* Enqueue of a stack: the entry goes to the end popleft takes from
EnqueueLeft(queue, entry) == <<entry>> \o queue

\* queue.append((next_node, path + [next_node], edge_types + [edge["type"]]))
Enqueue(queue, entry) == Append(queue, entry)

\* the for loop over the edges of the dequeued node: an edge is followed when
\* its head is new or the path is still shorter than max_depth; heads are
\* marked visited as they are enqueued, so a later edge of the same loop sees
\* the marks of the earlier ones
RECURSIVE ExpandEdges(_, _, _, _, _)
ExpandEdges(edges, item, max_depth, queue, visited) ==
    IF edges = <<>> THEN [queue |-> queue, visited |-> visited]
    ELSE LET edge == Head(edges)
             next_node == edge.to
         IN IF EdgeFollowed(next_node, visited, item.path, max_depth)
            THEN ExpandEdges(Tail(edges), item, max_depth,
                             Enqueue(queue,
                                     [current |-> next_node,
                                      path |-> Append(item.path, next_node),
                                      edge_types |-> Append(item.edge_types, edge.type)]),
                             visited \cup {next_node})
            ELSE ExpandEdges(Tail(edges), item, max_depth, queue, visited)

PathsRejected ==
    /\ pf.pc = "start"
    /\ ~MaxDepthAccepted(pf.max_depth)
    /\ pf' = [pf EXCEPT !.pc = "done", !.status = "invalid"]
    /\ UNCHANGED <<store_entities, store_relations, sg, cl, lk, store_collections, store_hits, sr, mg, bc>>

PathsNotFound ==
    /\ pf.pc = "start"
    /\ MaxDepthAccepted(pf.max_depth)
    /\ ~EndpointsResolve(pf.source, pf.target)
    /\ pf' = [pf EXCEPT !.pc = "done", !.status = "not_found"]
    /\ UNCHANGED <<store_entities, store_relations, sg, cl, lk, store_collections, store_hits, sr, mg, bc>>

\* all relations are fetched, the adjacency map is built, the queue starts
\* with the source
PathsBegin ==
    /\ pf.pc = "start"
    /\ MaxDepthAccepted(pf.max_depth)
    /\ EndpointsResolve(pf.source, pf.target)
    /\ pf' = [pf EXCEPT
           !.pc = "bfs",
           !.adjacency = BuildAdjacency(GetRelations(NoEntity)),
           !.queue = <<[current |-> pf.source, path |-> <<pf.source>>, edge_types |-> <<>>]>>,
           !.visited = {pf.source}]
    /\ UNCHANGED <<store_entities, store_relations, sg, cl, lk, store_collections, store_hits, sr, mg, bc>>

\* queue.popleft() of an entry whose path is too long
PathsSkipDeep ==
    /\ pf.pc = "bfs"
    /\ PathsGuard(pf)
    /\ TooDeep(Head(pf.queue).path, pf.max_depth)
    /\ pf' = [pf EXCEPT !.queue = Tail(pf.queue)]
    /\ UNCHANGED <<store_entities, store_relations, sg, cl, lk, store_collections, store_hits, sr, mg, bc>>

\* queue.popleft() of an entry that stands at the target
PathsRecord ==
    /\ pf.pc = "bfs"
    /\ PathsGuard(pf)
    /\ LET item == Head(pf.queue)
       IN /\ ~TooDeep(item.path, pf.max_depth)
          /\ item.current = pf.target
          /\ pf' = [pf EXCEPT
                 !.queue = Tail(pf.queue),
                 !.paths = Append(pf.paths,
                                  [path |-> item.path, edge_types |-> item.edge_types,
                                   length |-> Len(item.path) - 1])]
    /\ UNCHANGED <<store_entities, store_relations, sg, cl, lk, store_collections, store_hits, sr, mg, bc>>

\* queue.popleft() of any other entry: its edges are followed
PathsExpand ==
    /\ pf.pc = "bfs"
    /\ PathsGuard(pf)
    /\ LET item == Head(pf.queue)
       IN /\ ~TooDeep(item.path, pf.max_depth)
          /\ item.current # pf.target
          /\ LET after == ExpandEdges(AdjacencyGet(pf.adjacency, item.current), item,
                                      pf.max_depth, Tail(pf.queue), pf.visited)
             IN pf' = [pf EXCEPT !.queue = after.queue, !.visited = after.visited]
    /\ UNCHANGED <<store_entities, store_relations, sg, cl, lk, store_collections, store_hits, sr, mg, bc>>

PathsReturn ==
    /\ pf.pc = "bfs"
    /\ ~PathsGuard(pf)
    /\ pf' = [pf EXCEPT !.pc = "done", !.status = "ok"]
    /\ UNCHANGED <<store_entities, store_relations, sg, cl, lk, store_collections, store_hits, sr, mg, bc>>

(***************************************************************************)
(* Direct lookups: get_entity and get_entity_relations of api/entities.py. *)
(***************************************************************************)
LkRequest(op, n) ==
    [pc |-> "start", op |-> op, entity_name |-> n, status |-> "pending",
     incoming |-> <<>>, outgoing |-> <<>>]

\* if not entity: raise HTTPException(status_code=404, ...)
LookupFound(entity_name) == GetEntity(entity_name) # NoEntity

GetEntityNotFound ==
    /\ lk.pc = "start" /\ lk.op = "get_entity"
    /\ ~LookupFound(lk.entity_name)
    /\ lk' = [lk EXCEPT !.pc = "done", !.status = "not_found"]
    /\ UNCHANGED <<store_entities, store_relations, sg, cl, pf, store_collections, store_hits, sr, mg, bc>>

GetEntityFound ==
    /\ lk.pc = "start" /\ lk.op = "get_entity"
    /\ LookupFound(lk.entity_name)
    /\ lk' = [lk EXCEPT !.pc = "done", !.status = "ok"]
    /\ UNCHANGED <<store_entities, store_relations, sg, cl, pf, store_collections, store_hits, sr, mg, bc>>

GetEntityRelationsNotFound ==
    /\ lk.pc = "start" /\ lk.op = "get_entity_relations"
    /\ ~LookupFound(lk.entity_name)
    /\ lk' = [lk EXCEPT !.pc = "done", !.status = "not_found"]
    /\ UNCHANGED <<store_entities, store_relations, sg, cl, pf, store_collections, store_hits, sr, mg, bc>>

\* relations of the entity, split by direction
GetEntityRelationsFound ==
    /\ lk.pc = "start" /\ lk.op = "get_entity_relations"
    /\ LookupFound(lk.entity_name)
    /\ LET relations == GetRelations(lk.entity_name)
       IN lk' = [lk EXCEPT
              !.pc = "done", !.status = "ok",
              !.outgoing = SelectSeq(relations, LAMBDA r : r.from_entity = lk.entity_name),
              !.incoming = SelectSeq(relations, LAMBDA r : r.from_entity # lk.entity_name)]
    /\ UNCHANGED <<store_entities, store_relations, sg, cl, pf, store_collections, store_hits, sr, mg, bc>>

InitPaths ==
    /\ SmallStore
    /\ \/ /\ \E s \in Names, t \in Names, d \in 0..MaxPathDepth : pf = PfRequest(s, t, d)
          /\ lk = Idle
       \/ /\ \E op \in {"get_entity", "get_entity_relations"}, n \in Names :
                lk = LkRequest(op, n)
          /\ pf = Idle
    /\ sg = Idle
    /\ cl = Idle
    /\ NoSearch
    /\ NoSockets

NextPaths ==
    \/ PathsRejected
    \/ PathsNotFound
    \/ PathsBegin
    \/ PathsSkipDeep
    \/ PathsRecord
    \/ PathsExpand
    \/ PathsReturn
    \/ GetEntityNotFound
    \/ GetEntityFound
    \/ GetEntityRelationsNotFound
    \/ GetEntityRelationsFound

SpecPaths == InitPaths /\ [][NextPaths]_vars

(***************************************************************************)
(* Cluster analyzer: get_graph_clusters of api/graph.py.                   *)
(***************************************************************************)
MaxMinSize == 3    \* min_cluster_size values tried: 2..MaxMinSize

\* Wide stores: many small components, to reach the cap on reported
\* clusters.  k pairs w(2i-1) -> w(2i); when j > 0 the j-th pair is linked to
\* one more entity, which makes it the only component of three.
WideNames ==
    << "w01", "w02", "w03", "w04", "w05", "w06", "w07", "w08", "w09", "w10",
       "w11", "w12", "w13", "w14", "w15", "w16", "w17", "w18", "w19", "w20",
       "w21", "w22", "w23", "w24", "w25", "w26" >>

WideEntities(k, j) == SubSeq(WideNames, 1, IF j > 0 THEN 2 * k + 1 ELSE 2 * k)

WideRelations(k, j) ==
    [i \in 1..k |-> Rel(WideNames[2 * i - 1], WideNames[2 * i], "calls")]
    \o (IF j > 0 THEN <<Rel(WideNames[2 * j], WideNames[2 * k + 1], "uses")>> ELSE <<>>)

WideStore ==
    \E k \in {WidePairs - 1, WidePairs} : \E j \in 0..k :
        /\ store_entities = WideEntities(k, j)
        /\ store_relations = WideRelations(k, j)

\* cl.components is a history field: every component the scan closed, kept or
\* not, in the order of discovery.  The handler keeps only cl.clusters.
ClRequest(m) ==
    [pc |-> "start", min_cluster_size |-> m, entities |-> <<>>, relations |-> <<>>,
     adjacency |-> <<>>, visited |-> {}, clusters |-> <<>>, components |-> <<>>,
     i |-> 1, cluster |-> {}, stack |-> <<>>, j |-> 1, cluster_info |-> <<>>,
     total_clusters |-> 0, isolated_nodes |-> 0, status |-> "pending"]

\* adjacency[entity.name] = set(); then for every relation each end that is a
\* key gets the other end as a neighbour
ClusterAdjacency(entities, relations) ==
    [n \in Range(entities) |->
        {r.to_entity : r \in {x \in Range(relations) : x.from_entity = n}}
        \cup {r.from_entity : r \in {x \in Range(relations) : x.to_entity = n}}]

\* adjacency.get(node, [])
NeighboursGet(adjacency, node) ==
    IF node \in DOMAIN adjacency THEN adjacency[node] ELSE {}

\* entities, relations = service.get_graph_data(collection=collection, limit=500)
ClustersFetch ==
    /\ cl.pc = "start"
    /\ LET entities == ScrollEntities({}, ClusterFetchLimit)
           relations == GetRelations(NoEntity)
       IN cl' = [cl EXCEPT !.pc = "scan", !.entities = entities, !.relations = relations,
                           !.adjacency = ClusterAdjacency(entities, relations)]
    /\ UNCHANGED <<store_entities, store_relations, sg, pf, lk, store_collections, store_hits, sr, mg, bc>>

\* for entity in entities: the entity is already in a component
ScanSkip ==
    /\ cl.pc = "scan"
    /\ cl.i <= Len(cl.entities)
    /\ cl.entities[cl.i] \in cl.visited
    /\ cl' = [cl EXCEPT !.i = cl.i + 1]
    /\ UNCHANGED <<store_entities, store_relations, sg, pf, lk, store_collections, store_hits, sr, mg, bc>>

\* cluster = set(); dfs(entity.name, cluster): the first call marks the entity
\* and starts the loop over its neighbours
ScanStart ==
    /\ cl.pc = "scan"
    /\ cl.i <= Len(cl.entities)
    /\ LET node == cl.entities[cl.i]
       IN /\ node \notin cl.visited
          /\ cl' = [cl EXCEPT
                 !.pc = "dfs",
                 !.visited = cl.visited \cup {node},
                 !.cluster = {node},
                 !.stack = <<[node |-> node, todo |-> NeighboursGet(cl.adjacency, node)]>>]
    /\ UNCHANGED <<store_entities, store_relations, sg, pf, lk, store_collections, store_hits, sr, mg, bc>>

\* dfs(neighbor, cluster) on a name seen before: returns at once
DfsSeen ==
    /\ cl.pc = "dfs"
    /\ cl.stack # <<>>
    /\ LET top == cl.stack[Len(cl.stack)]
       IN \E neighbor \in top.todo :
            /\ neighbor \in cl.visited
            /\ cl' = [cl EXCEPT !.stack[Len(cl.stack)].todo = top.todo \ {neighbor}]
    /\ UNCHANGED <<store_entities, store_relations, sg, pf, lk, store_collections, store_hits, sr, mg, bc>>

\* dfs(neighbor, cluster) on a new name: marks it, adds it to the cluster and
\* loops over its neighbours
DfsDescend ==
    /\ cl.pc = "dfs"
    /\ cl.stack # <<>>
    /\ LET top == cl.stack[Len(cl.stack)]
       IN \E neighbor \in top.todo :
            /\ neighbor \notin cl.visited
            /\ cl' = [cl EXCEPT
                   !.visited = cl.visited \cup {neighbor},
                   !.cluster = cl.cluster \cup {neighbor},
                   !.stack = Append([cl.stack EXCEPT ![Len(cl.stack)].todo =
                                                         top.todo \ {neighbor}],
                                    [node |-> neighbor,
                                     todo |-> NeighboursGet(cl.adjacency, neighbor)])]
    /\ UNCHANGED <<store_entities, store_relations, sg, pf, lk, store_collections, store_hits, sr, mg, bc>>

\* the loop over the neighbours of the innermost call is over: it returns
DfsReturn ==
    /\ cl.pc = "dfs"
    /\ cl.stack # <<>>
    /\ cl.stack[Len(cl.stack)].todo = {}
    /\ cl' = [cl EXCEPT !.stack = SubSeq(cl.stack, 1, Len(cl.stack) - 1)]
    /\ UNCHANGED <<store_entities, store_relations, sg, pf, lk, store_collections, store_hits, sr, mg, bc>>

\* if len(cluster) >= min_cluster_size
ClusterRetained(cluster, min_cluster_size) == Cardinality(cluster) >= min_cluster_size

\* the outermost dfs call returned: clusters.append(list(cluster))
ScanKeep ==
    /\ cl.pc = "dfs"
    /\ cl.stack = <<>>
    /\ ClusterRetained(cl.cluster, cl.min_cluster_size)
    /\ cl' = [cl EXCEPT !.pc = "scan", !.i = cl.i + 1,
                        !.clusters = Append(cl.clusters, cl.cluster),
                        !.components = Append(cl.components, cl.cluster)]
    /\ UNCHANGED <<store_entities, store_relations, sg, pf, lk, store_collections, store_hits, sr, mg, bc>>

\* the outermost dfs call returned with a cluster below the minimum
ScanDrop ==
    /\ cl.pc = "dfs"
    /\ cl.stack = <<>>
    /\ ~ClusterRetained(cl.cluster, cl.min_cluster_size)
    /\ cl' = [cl EXCEPT !.pc = "scan", !.i = cl.i + 1,
                        !.components = Append(cl.components, cl.cluster)]
    /\ UNCHANGED <<store_entities, store_relations, sg, pf, lk, store_collections, store_hits, sr, mg, bc>>

\* c goes behind every cluster at least as large
InsertBySize(sorted, c) ==
    LET k == Cardinality({m \in DOMAIN sorted : Cardinality(sorted[m]) >= Cardinality(c)})
    IN SubSeq(sorted, 1, k) \o <<c>> \o SubSeq(sorted, k + 1, Len(sorted))

\* SortClusters that leaves the list as it is
SortClustersNot(clusters) == clusters

\* clusters.sort(key=len, reverse=True): stable, largest first
SortClusters(clusters) ==
    LET F[n \in 0..Len(clusters)] ==
            IF n = 0 THEN <<>> ELSE InsertBySize(F[n - 1], clusters[n])
    IN F[Len(clusters)]

\* clusters[:10]
TopOf(clusters) == Take(clusters, TopClusters)

\* cluster_nodes[:20] of a list made from a set: any 20 of its names
SampleSets(cluster) ==
    IF Cardinality(cluster) <= SampleNodes THEN {cluster}
    ELSE {T \in SUBSET cluster : Cardinality(T) = SampleNodes}

ClustersSort ==
    /\ cl.pc = "scan"
    /\ cl.i > Len(cl.entities)
    /\ cl' = [cl EXCEPT !.pc = "report", !.clusters = SortClusters(cl.clusters)]
    /\ UNCHANGED <<store_entities, store_relations, sg, pf, lk, store_collections, store_hits, sr, mg, bc>>

\* one round of the loop over clusters[:10]; dominant_type and sample_files
\* are left out, nothing reads them
ReportCluster ==
    /\ cl.pc = "report"
    /\ cl.j <= Len(TopOf(cl.clusters))
    /\ LET cluster_nodes == TopOf(cl.clusters)[cl.j]
       IN \E nodes \in SampleSets(cluster_nodes) :
            cl' = [cl EXCEPT
                !.j = cl.j + 1,
                !.cluster_info = Append(cl.cluster_info,
                                        [size |-> Cardinality(cluster_nodes),
                                         nodes |-> nodes])]
    /\ UNCHANGED <<store_entities, store_relations, sg, pf, lk, store_collections, store_hits, sr, mg, bc>>

ClustersReturn ==
    /\ cl.pc = "report"
    /\ cl.j > Len(TopOf(cl.clusters))
    /\ cl' = [cl EXCEPT !.pc = "done", !.status = "ok",
                        !.total_clusters = Len(cl.clusters),
                        !.isolated_nodes = Len(cl.entities) - Cardinality(cl.visited)]
    /\ UNCHANGED <<store_entities, store_relations, sg, pf, lk, store_collections, store_hits, sr, mg, bc>>

InitClusters ==
    /\ SmallStore \/ WideStore
    /\ \E m \in 2..MaxMinSize : cl = ClRequest(m)
    /\ sg = Idle
    /\ pf = Idle
    /\ lk = Idle
    /\ NoSearch
    /\ NoSockets

NextClusters ==
    \/ ClustersFetch
    \/ ScanSkip
    \/ ScanStart
    \/ DfsSeen
    \/ DfsDescend
    \/ DfsReturn
    \/ ScanKeep
    \/ ScanDrop
    \/ ClustersSort
    \/ ReportCluster
    \/ ClustersReturn

SpecClusters == InitClusters /\ [][NextClusters]_vars

(***************************************************************************)
(* Search: search of api/search.py over QdrantService.search_similar.      *)
(* Every call of the store either answers or raises.                       *)
(***************************************************************************)
MaxHits == 3          \* scored points the store ranks for a query: 0..MaxHits
MaxScore == 2         \* scores are 1..MaxScore; only their order matters
MaxSearchLimit == 3   \* SearchRequest.limit values tried: 1..MaxSearchLimit
MaxOffset == 2        \* SearchRequest.offset values tried: 0..MaxOffset

NoCollection == ""

CollectionListings == {<<>>, <<"main">>, <<"docs", "main">>}

SearchModes == {"semantic", "keyword", "hybrid"}

\* a scored point: `converts` says whether _point_to_entity makes an Entity of
\* it (it returns None when the payload does not fit the schema)
Hit(i, score, converts) == [id |-> i, score |-> score, converts |-> converts]

HitLists ==
    UNION {{[i \in 1..n |-> Hit(i, sc[i], cv[i])] :
                sc \in [1..n -> 1..MaxScore], cv \in [1..n -> BOOLEAN]} : n \in 0..MaxHits}

\* `requested` keeps the collection as the caller named it (the handler
\* overwrites request.collection); `store_failed` records that a store call raised
SrRequest(c, mode, limit, offset) ==
    [pc |-> "start", requested |-> c, collection |-> c, mode |-> mode, limit |-> limit,
     offset |-> offset, entity_results |-> <<>>, results |-> <<>>, page |-> <<>>, total |-> 0,
     status |-> "pending", store_failed |-> FALSE]

\* client.get_collection(name) raises for a name the store does not hold
CollectionExists(collection) == collection \in Range(store_collections)

\* FirstCollection that takes the last listed name
LastCollection(collections) == collections[Len(collections)]

\* request.collection = collections[0]
FirstCollection(collections) == collections[1]

\* SimilaritySearch of a store that hands out every match
SimilaritySearchAll(limit) == store_hits

\* client.search(..., limit=limit): the first `limit` points of the ranking
SimilaritySearch(limit) == Take(store_hits, limit)

\* the points the store hands to search_similar, by mode; hybrid asks for
\* twice the limit and keeps semantic_results[:limit]
ModeResults(mode, limit) ==
    IF mode \in {"semantic", "keyword"} THEN SimilaritySearch(limit)
    ELSE Take(SimilaritySearch(limit * 2), limit)

\* ConvertHits that puts each entity in front of the list
ConvertHitsReversed(results) ==
    LET kept == SelectSeq(results, LAMBDA h : h.converts)
    IN [i \in DOMAIN kept |-> kept[Len(kept) + 1 - i]]

\* for point in results: entity = _point_to_entity(point); if entity:
\* entities.append((entity, point.score))
ConvertHits(results) == SelectSeq(results, LAMBDA h : h.converts)

\* Page that ignores the offset
PageFromStart(results, offset, limit) == Take(results, limit)

\* results[request.offset : request.offset + request.limit]
Page(results, offset, limit) ==
    SubSeq(results, Min(offset, Len(results)) + 1, Min(offset + limit, Len(results)))

\* if request.collection: get_collection_info raised inside and returned a
\* dictionary with "error": the collection is not in the store
SearchNamedMissing ==
    /\ sr.pc = "start"
    /\ sr.collection # NoCollection
    /\ ~CollectionExists(sr.collection)
    /\ sr' = [sr EXCEPT !.pc = "done", !.status = "not_found"]
    /\ UNCHANGED <<store_entities, store_relations, sg, cl, pf, lk, store_collections, store_hits, mg, bc>>

\* get_collection_info: the store fails during get_collection or count; the
\* except clause turns the failure into the same dictionary with "error"
SearchInfoFailed ==
    /\ sr.pc = "start"
    /\ sr.collection # NoCollection
    /\ sr' = [sr EXCEPT !.pc = "done", !.status = "not_found", !.store_failed = TRUE]
    /\ UNCHANGED <<store_entities, store_relations, sg, cl, pf, lk, store_collections, store_hits, mg, bc>>

SearchNamedFound ==
    /\ sr.pc = "start"
    /\ sr.collection # NoCollection
    /\ CollectionExists(sr.collection)
    /\ sr' = [sr EXCEPT !.pc = "search"]
    /\ UNCHANGED <<store_entities, store_relations, sg, cl, pf, lk, store_collections, store_hits, mg, bc>>

\* list_collections raises: the handler's except Exception answers 500
SearchListFailed ==
    /\ sr.pc = "start"
    /\ sr.collection = NoCollection
    /\ sr' = [sr EXCEPT !.pc = "done", !.status = "error", !.store_failed = TRUE]
    /\ UNCHANGED <<store_entities, store_relations, sg, cl, pf, lk, store_collections, store_hits, mg, bc>>

\* if not collections: raise HTTPException(status_code=404, ...)
SearchNoCollections ==
    /\ sr.pc = "start"
    /\ sr.collection = NoCollection
    /\ store_collections = <<>>
    /\ sr' = [sr EXCEPT !.pc = "done", !.status = "not_found"]
    /\ UNCHANGED <<store_entities, store_relations, sg, cl, pf, lk, store_collections, store_hits, mg, bc>>

SearchFirstCollection ==
    /\ sr.pc = "start"
    /\ sr.collection = NoCollection
    /\ store_collections # <<>>
    /\ sr' = [sr EXCEPT !.pc = "search", !.collection = FirstCollection(store_collections)]
    /\ UNCHANGED <<store_entities, store_relations, sg, cl, pf, lk, store_collections, store_hits, mg, bc>>

\* client.search raises inside search_similar: answered 500
SearchSimilarFailed ==
    /\ sr.pc = "search"
    /\ sr' = [sr EXCEPT !.pc = "done", !.status = "error", !.store_failed = TRUE]
    /\ UNCHANGED <<store_entities, store_relations, sg, cl, pf, lk, store_collections, store_hits, mg, bc>>

\* entity_results = await service.search_similar(...); results = one
\* SearchResult per (entity, score)
SearchSimilar ==
    /\ sr.pc = "search"
    /\ LET entity_results == ConvertHits(ModeResults(sr.mode, sr.limit))
       IN sr' = [sr EXCEPT !.pc = "respond", !.entity_results = entity_results,
                           !.results = entity_results]
    /\ UNCHANGED <<store_entities, store_relations, sg, cl, pf, lk, store_collections, store_hits, mg, bc>>

\* return SearchResponse(results=results[offset : offset + limit], total=len(results), ...)
SearchRespond ==
    /\ sr.pc = "respond"
    /\ sr' = [sr EXCEPT !.pc = "done", !.status = "ok",
                        !.page = Page(sr.results, sr.offset, sr.limit),
                        !.total = Len(sr.results)]
    /\ UNCHANGED <<store_entities, store_relations, sg, cl, pf, lk, store_collections, store_hits, mg, bc>>

InitSearch ==
    /\ store_entities = <<>>
    /\ store_relations = <<>>
    /\ store_collections \in CollectionListings
    /\ store_hits \in HitLists
    /\ \E c \in {NoCollection, "main", "gone"}, mode \in SearchModes,
          limit \in 1..MaxSearchLimit, offset \in 0..MaxOffset :
            sr = SrRequest(c, mode, limit, offset)
    /\ sg = Idle
    /\ cl = Idle
    /\ pf = Idle
    /\ lk = Idle
    /\ NoSockets

NextSearch ==
    \/ SearchNamedMissing
    \/ SearchInfoFailed
    \/ SearchNamedFound
    \/ SearchListFailed
    \/ SearchNoCollections
    \/ SearchFirstCollection
    \/ SearchSimilarFailed
    \/ SearchSimilar
    \/ SearchRespond

SpecSearch == InitSearch /\ [][NextSearch]_vars

(***************************************************************************)
(* Real-time updates: ConnectionManager, websocket_endpoint and            *)
(* broadcast_update of api/websocket.py.  Handlers are coroutines of one   *)
(* event loop: a step runs from one await to the next, and only at an      *)
(* await can another handler run.  A subscription set that was never       *)
(* created counts as the empty set (subscriptions.get(collection, set())). *)
(***************************************************************************)
MaxSockets == 2     \* websocket connections opened in one run: 1..MaxSockets

ClientIds == {"x", "y"}

Channels == {"main", "docs"}

NoSocket == 0

Sockets == 1..MaxSockets

\* a socket is "new" (not yet accepted), "live", "dead" (the peer went away,
\* the handler has not seen it yet) or "closed" (the handler has ended);
\* `dropped` keeps the subscriptions the last disconnect of a handler removed,
\* `shared` that a socket was accepted under a client id another open socket used
ManagerInit ==
    [active_connections |-> [c \in ClientIds |-> NoSocket],
     subscriptions |-> [k \in Channels |-> {}],
     sockets |-> [w \in Sockets |-> [state |-> "new", client_id |-> ""]],
     dropped |-> {}, shared |-> FALSE]

BroadcastIdle ==
    [pc |-> "idle", collection |-> "", size |-> 0, snapshot |-> {}, yielded |-> {},
     current |-> "", websocket |-> NoSocket, disconnected_clients |-> <<>>,
     sent |-> <<>>, steady |-> {}, status |-> "pending", client_count |-> 0]

\* client_id in self.active_connections
Connected(m, client_id) == m.active_connections[client_id] # NoSocket

\* DiscardFromAll that leaves the subscriptions as they are
DiscardFromNone(subscriptions, client_id) == subscriptions

\* for collection in self.subscriptions: self.subscriptions[collection].discard(client_id)
DiscardFromAll(subscriptions, client_id) ==
    [k \in DOMAIN subscriptions |-> subscriptions[k] \ {client_id}]

\* ConnectionManager.disconnect
Disconnect(m, client_id) ==
    [m EXCEPT !.active_connections[client_id] = NoSocket,
              !.subscriptions = DiscardFromAll(m.subscriptions, client_id)]

\* ConnectionManager.subscribe
Subscribe(m, client_id, collection) ==
    [m EXCEPT !.subscriptions[collection] = @ \cup {client_id}]

\* ConnectionManager.unsubscribe
Unsubscribe(m, client_id, collection) ==
    [m EXCEPT !.subscriptions[collection] = @ \ {client_id}]

\* the clients that have stayed subscribed to the broadcast's collection and
\* connected by the same live socket since the broadcast began (history)
Track(b, m, m2) ==
    IF b.pc # "await" THEN b
    ELSE [b EXCEPT !.steady =
             {c \in b.steady :
                 /\ c \in m2.subscriptions[b.collection]
                 /\ m2.active_connections[c] = m.active_connections[c]
                 /\ Connected(m2, c)
                 /\ m2.sockets[m2.active_connections[c]].state = "live"}]

\* await manager.connect(websocket, client_id): accept, then
\* self.active_connections[client_id] = websocket, whoever held the key;
\* sockets are numbered in the order in which they are accepted
WsConnect ==
    /\ mg # Idle
    /\ \E w \in Sockets, c \in ClientIds :
        /\ mg.sockets[w].state = "new"
        /\ \A v \in Sockets : v < w => mg.sockets[v].state # "new"
        /\ LET m2 == [mg EXCEPT
                         !.sockets[w] = [state |-> "live", client_id |-> c],
                         !.active_connections[c] = w,
                         !.shared = @ \/ \E v \in Sockets :
                                             /\ mg.sockets[v].state \in {"live", "dead"}
                                             /\ mg.sockets[v].client_id = c]
           IN mg' = m2 /\ bc' = Track(bc, mg, m2)
    /\ UNCHANGED <<store_entities, store_relations, sg, cl, pf, lk, store_collections,
                   store_hits, sr>>

\* a "subscribe" message arrives on a live socket
WsSubscribe ==
    /\ mg # Idle
    /\ \E w \in Sockets, k \in Channels :
        /\ mg.sockets[w].state = "live"
        /\ LET m2 == Subscribe(mg, mg.sockets[w].client_id, k)
           IN mg' = m2 /\ bc' = Track(bc, mg, m2)
    /\ UNCHANGED <<store_entities, store_relations, sg, cl, pf, lk, store_collections,
                   store_hits, sr>>

\* an "unsubscribe" message arrives on a live socket
WsUnsubscribe ==
    /\ mg # Idle
    /\ \E w \in Sockets, k \in Channels :
        /\ mg.sockets[w].state = "live"
        /\ LET m2 == Unsubscribe(mg, mg.sockets[w].client_id, k)
           IN mg' = m2 /\ bc' = Track(bc, mg, m2)
    /\ UNCHANGED <<store_entities, store_relations, sg, cl, pf, lk, store_collections,
                   store_hits, sr>>

\* the peer of a live socket goes away; its handler still waits in receive_text
WsPeerGone ==
    /\ mg # Idle
    /\ \E w \in Sockets :
        /\ mg.sockets[w].state = "live"
        /\ LET m2 == [mg EXCEPT !.sockets[w].state = "dead"]
           IN mg' = m2 /\ bc' = Track(bc, mg, m2)
    /\ UNCHANGED <<store_entities, store_relations, sg, cl, pf, lk, store_collections,
                   store_hits, sr>>

\* except WebSocketDisconnect: manager.disconnect(client_id)
WsDisconnect ==
    /\ mg # Idle
    /\ \E w \in Sockets :
        /\ mg.sockets[w].state = "dead"
        /\ LET c == mg.sockets[w].client_id
               m2 == [Disconnect(mg, c) EXCEPT
                         !.sockets[w].state = "closed",
                         !.dropped = {k \in Channels : c \in mg.subscriptions[k]}]
           IN mg' = m2 /\ bc' = Track(bc, mg, m2)
    /\ UNCHANGED <<store_entities, store_relations, sg, cl, pf, lk, store_collections,
                   store_hits, sr>>

\* a text that is no JSON arrives on a live socket: json.loads raises,
\* except Exception: manager.disconnect(client_id), and the handler ends
WsBadMessage ==
    /\ mg # Idle
    /\ \E w \in Sockets :
        /\ mg.sockets[w].state = "live"
        /\ LET c == mg.sockets[w].client_id
               m2 == [Disconnect(mg, c) EXCEPT
                         !.sockets[w].state = "closed",
                         !.dropped = {k \in Channels : c \in mg.subscriptions[k]}]
           IN mg' = m2 /\ bc' = Track(bc, mg, m2)
    /\ UNCHANGED <<store_entities, store_relations, sg, cl, pf, lk, store_collections,
                   store_hits, sr>>

\* for client_id in disconnected_clients: self.disconnect(client_id)
CleanUp(m, disconnected_clients) ==
    LET F[n \in 0..Len(disconnected_clients)] ==
            IF n = 0 THEN m ELSE Disconnect(F[n - 1], disconnected_clients[n])
    IN F[Len(disconnected_clients)]

\* client_count = len(manager.subscriptions.get(collection, set()))
CountNotified(b, m) == Cardinality(m.subscriptions[b.collection])

\* the loop is over: clean up, then broadcast_update counts and answers
Finish(b, m) ==
    LET m2 == CleanUp(m, b.disconnected_clients)
    IN [bc |-> [b EXCEPT !.pc = "done", !.status = "ok",
                         !.client_count = CountNotified(b, m2)],
        mg |-> m2]

\* The run of broadcast_to_collection from the head of its for loop to the
\* next await or to the end.  The set iterator raises RuntimeError when the
\* size of the set differs from the size at the start of the loop; the error
\* leaves the handler (the try is inside the loop body).  Clients that are not
\* connected are passed without an await.  The order of a set is not fixed;
\* when the set was changed without a change of size, what the iterator
\* still yields is not fixed either: any name not yet yielded, or nothing.
AdvanceOutcomes(b, m) ==
    LET subs == m.subscriptions[b.collection]
        waiting == subs \ b.yielded
        reachable == {c \in waiting : Connected(m, c)}
        passable == waiting \ reachable
        sends == {[bc |-> [b EXCEPT !.pc = "await", !.current = c,
                                    !.websocket = m.active_connections[c],
                                    !.yielded = b.yielded \cup P \cup {c}],
                   mg |-> m] : c \in reachable, P \in SUBSET passable}
    IN IF Cardinality(subs) # b.size
       THEN {[bc |-> [b EXCEPT !.pc = "done", !.status = "error"], mg |-> m]}
       ELSE IF reachable = {} THEN {Finish(b, m)}
       ELSE IF subs = b.snapshot THEN sends
       ELSE sends \cup {Finish(b, m)}

\* broadcast_update is called (once in a run): the loop starts and runs to
\* its first await
BroadcastStart ==
    /\ mg # Idle
    /\ bc.pc = "idle"
    /\ \E k \in Channels :
        LET subs == mg.subscriptions[k]
            b == [BroadcastIdle EXCEPT
                     !.collection = k, !.size = Cardinality(subs), !.snapshot = subs,
                     !.steady = {c \in subs : /\ Connected(mg, c)
                                              /\ mg.sockets[mg.active_connections[c]].state
                                                     = "live"}]
        IN \E o \in AdvanceOutcomes(b, mg) : bc' = o.bc /\ mg' = o.mg
    /\ UNCHANGED <<store_entities, store_relations, sg, cl, pf, lk, store_collections,
                   store_hits, sr>>

\* await websocket.send_text(message) returns: the socket took the message
\* (a socket whose peer has just gone may still take it)
BroadcastSendOk ==
    /\ mg # Idle
    /\ bc.pc = "await"
    /\ mg.sockets[bc.websocket].state \in {"live", "dead"}
    /\ LET b == [bc EXCEPT !.sent = Append(bc.sent, [client_id |-> bc.current,
                                                     websocket |-> bc.websocket])]
       IN \E o \in AdvanceOutcomes(b, mg) : bc' = o.bc /\ mg' = o.mg
    /\ UNCHANGED <<store_entities, store_relations, sg, cl, pf, lk, store_collections,
                   store_hits, sr>>

\* await websocket.send_text(message) raises: disconnected_clients.append(client_id)
BroadcastSendFailed ==
    /\ mg # Idle
    /\ bc.pc = "await"
    /\ mg.sockets[bc.websocket].state \in {"dead", "closed"}
    /\ LET b == [bc EXCEPT !.disconnected_clients = Append(bc.disconnected_clients, bc.current)]
       IN \E o \in AdvanceOutcomes(b, mg) : bc' = o.bc /\ mg' = o.mg
    /\ UNCHANGED <<store_entities, store_relations, sg, cl, pf, lk, store_collections,
                   store_hits, sr>>

InitSockets ==
    /\ store_entities = <<>>
    /\ store_relations = <<>>
    /\ sg = Idle
    /\ cl = Idle
    /\ pf = Idle
    /\ lk = Idle
    /\ NoSearch
    /\ mg = ManagerInit
    /\ bc = BroadcastIdle

NextSockets ==
    \/ WsConnect
    \/ WsSubscribe
    \/ WsUnsubscribe
    \/ WsPeerGone
    \/ WsDisconnect
    \/ WsBadMessage
    \/ BroadcastStart
    \/ BroadcastSendOk
    \/ BroadcastSendFailed

SpecSockets == InitSockets /\ [][NextSockets]_vars

(***************************************************************************)
(* Properties of the subgraph extractor (checked under SpecSubgraph).      *)
(***************************************************************************)
FocusMode == sg.entity # NoEntity

SgReturned == sg.pc \in {"respond", "done"}

\* The store and request of the spec's scenario: entities A, B, C, D with
\* A->B, B->C, A->D, and ExtractSubgraph(focus=B, depth=2, limit=10).
ScenarioStore ==
    /\ store_entities = <<"A", "B", "C", "D">>
    /\ store_relations = PickRelations({1, 2, 3})

ScenarioFocusB == ScenarioStore /\ sg.entity = "B" /\ sg.depth = 2 /\ sg.limit = 10

\* C1: for every store, focus (present or absent), type filter, depth >= 1 and
\* limit >= 1, QdrantService.get_graph_data returns at most `limit` entities;
\* the walk never holds more than `limit` names either.
C1_EntitiesAtMostLimit ==
    /\ Cardinality(sg.entities) <= sg.limit
    /\ SgReturned => Len(sg.ret_entities) <= sg.limit

\* C1 witness: a focus walk that stopped because the limit was reached, with
\* depth and store both allowing more.
C1_Witness ==
    /\ sg.pc = "done"
    /\ FocusMode
    /\ Len(sg.ret_entities) = sg.limit
    /\ sg.to_visit # {}
    /\ sg.current_depth < sg.depth

\* C2: every edge the endpoint returns, with or without a focus, has its source
\* and its target among the names of the returned nodes.
C2_NoDanglingEdges ==
    sg.pc = "done" =>
        \A i \in DOMAIN sg.edges :
            /\ sg.edges[i].source \in Range(sg.nodes)
            /\ sg.edges[i].target \in Range(sg.nodes)

\* C2 witness: the service handed over a relation with an endpoint outside the
\* node set, and the response still carries an edge.
C2_Witness ==
    /\ sg.pc = "done"
    /\ sg.edges # <<>>
    /\ \E i \in DOMAIN sg.relations :
        \/ sg.relations[i].from_entity \notin Range(sg.nodes)
        \/ sg.relations[i].to_entity \notin Range(sg.nodes)

\* C3: in focus mode the walk processes at most `depth` distinct names (the
\* counter advances once per processed name), so at most min(depth, limit)
\* entities are returned; in the scenario (focus=B, depth=2, limit=10) at most
\* two nodes come back and never all four.
C3_WalkVisitsAtMostDepth ==
    FocusMode =>
        /\ sg.current_depth = Cardinality(sg.visited)
        /\ Cardinality(sg.visited) <= sg.depth
        /\ SgReturned => Len(sg.ret_entities) <= Min(sg.depth, sg.limit)
        /\ (ScenarioFocusB /\ sg.pc = "done") =>
               /\ Len(sg.nodes) <= 2
               /\ Range(sg.nodes) # Names

\* C3 witness: the scenario answered with two nodes while a neighbour of the
\* visited names was still waiting.
C3_Witness ==
    /\ ScenarioFocusB
    /\ sg.pc = "done"
    /\ Len(sg.nodes) = 2
    /\ sg.to_visit # {}

\* C4 (as claimed): a focus name that does not resolve yields no nodes and no
\* edges, without error, for every store, depth and limit.
C4_UnresolvedFocusEmpty ==
    (sg.pc = "done" /\ FocusMode /\ ~Resolves(sg.entity)) =>
        /\ sg.nodes = <<>>
        /\ sg.edges = <<>>
        /\ sg.status = "ok"

\* C13 (as claimed): with no focus the nodes are the entities the store lists
\* for the type filter, at most `limit` of them, and the edge set is exactly
\* the set of stored relations with both ends among the returned nodes.
C13_NoFocusExactEdges ==
    (sg.pc = "done" /\ ~FocusMode) =>
        /\ sg.nodes = ScrollEntities(sg.entity_types, sg.limit)
        /\ Range(sg.edges) =
               {GraphEdge(r) : r \in {x \in Range(store_relations) :
                                         /\ x.from_entity \in Range(sg.nodes)
                                         /\ x.to_entity \in Range(sg.nodes)}}

\* how often x occurs in the sequence q
Occurrences(q, x) == Cardinality({i \in DOMAIN q : q[i] = x})

\* C21 (as claimed): the returned edges form a set: no stored relation appears
\* more often among the edges than the store holds it, also in focus mode when
\* the walk visits both of its ends.
C21_EdgesFormSet ==
    sg.pc = "done" =>
        \A r \in Range(store_relations) :
            Occurrences(sg.edges, GraphEdge(r)) <= Occurrences(store_relations, r)

\* the names one stored relation away from n, in either direction
Neighbours(n) ==
    {IF r.from_entity = n THEN r.to_entity ELSE r.from_entity :
        r \in {x \in Range(store_relations) : x.from_entity = n \/ x.to_entity = n}}

\* the names reachable from f through stored relations taken in either
\* direction, f among them
Component(f) ==
    LET F[k \in 0..Cardinality(Names)] ==
            IF k = 0 THEN {f}
            ELSE F[k - 1] \cup UNION {Neighbours(n) : n \in F[k - 1]}
    IN F[Cardinality(Names)]

\* C28 (as claimed): in focus mode, when depth is at least the number of
\* names of the focus's undirected component and limit exceeds the number of
\* them that resolve, the nodes returned are exactly the names of the
\* component that resolve, whatever order the names were popped in.
C28_WholeComponentReturned ==
    (sg.pc = "done" /\ FocusMode
     /\ sg.depth >= Cardinality(Component(sg.entity))
     /\ sg.limit > Cardinality({n \in Component(sg.entity) : Resolves(n)})) =>
        Range(sg.nodes) = {n \in Component(sg.entity) : Resolves(n)}

(***************************************************************************)
(* Properties of the path finder and the lookups (checked under SpecPaths). *)
(***************************************************************************)
PfActive == pf.pc # "idle"

\* the handler body ran to its end (the request was not refused for its max_depth)
PfAnswered == pf.pc = "done" /\ pf.status # "invalid"

\* names reachable from the names of S along stored relations, followed in
\* their direction, in at most k further steps
RECURSIVE ReachFrom(_, _)
ReachFrom(S, k) ==
    IF k = 0 THEN S
    ELSE ReachFrom(S \cup {r.to_entity : r \in {x \in Range(store_relations) : x.from_entity \in S}},
                   k - 1)

\* some directed chain of relations (possibly empty) leads from s to t
DirectedChain(s, t) == t \in ReachFrom({s}, Len(store_relations))

TrivialPath(x) == [path |-> <<x>>, edge_types |-> <<>>, length |-> 0]

\* C5: find_paths returns at most 5 paths, each of length (edges traversed) at
\* most max_depth, on every relation graph, cyclic ones included.
C5_PathsCappedAndBounded ==
    PfActive =>
        /\ Len(pf.paths) <= MaxPaths
        /\ \A i \in DOMAIN pf.paths :
            /\ pf.paths[i].length <= pf.max_depth
            /\ pf.paths[i].length = Len(pf.paths[i].edge_types)

\* C5 witness: five paths were returned while the queue still held entries,
\* on a graph with a cycle through the source.
C5_Witness ==
    /\ PfActive
    /\ pf.pc = "done"
    /\ Len(pf.paths) = MaxPaths
    /\ pf.queue # <<>>
    /\ \E i \in DOMAIN store_relations :
        store_relations[i].from_entity = store_relations[i].to_entity

C7_NotFoundIffUnresolved ==
    /\ (PfActive /\ pf.pc = "done") =>
        /\ pf.status = "not_found" => ~(Resolves(pf.source) /\ Resolves(pf.target))
        /\ (PfAnswered /\ ~(Resolves(pf.source) /\ Resolves(pf.target))) =>
               pf.status = "not_found" /\ pf.paths = <<>>
    /\ (lk.pc = "done") =>
        (lk.status = "not_found" <=> ~Resolves(lk.entity_name))

\* C7 witness: the source resolves, the target does not, and find_paths
\* answered NotFound.
C7_Witness ==
    /\ PfActive
    /\ pf.pc = "done"
    /\ pf.status = "not_found"
    /\ Resolves(pf.source)
    /\ ~Resolves(pf.target)

\* C8: when source and target both exist and no directed chain of relations
\* leads from source to target, find_paths returns an empty list and no error.
C8_DisconnectedEmpty ==
    (PfActive /\ PfAnswered /\ Resolves(pf.source) /\ Resolves(pf.target)
     /\ ~DirectedChain(pf.source, pf.target)) =>
        /\ pf.status = "ok"
        /\ pf.paths = <<>>

\* C8 witness: the target leads to the source but not the other way round, and
\* the answer is the empty list.
C8_Witness ==
    /\ PfActive
    /\ PfAnswered
    /\ Resolves(pf.source) /\ Resolves(pf.target)
    /\ ~DirectedChain(pf.source, pf.target)
    /\ DirectedChain(pf.target, pf.source)
    /\ pf.paths = <<>>
    /\ pf.status = "ok"

\* entry is a chain of stored relations from s to t: node i leads to node
\* i+1 by a stored relation of the i-th edge type
WellFormedPath(entry, s, t) ==
    /\ entry.path # <<>>
    /\ entry.path[1] = s
    /\ entry.path[Len(entry.path)] = t
    /\ Len(entry.edge_types) = Len(entry.path) - 1
    /\ entry.length = Len(entry.edge_types)
    /\ \A i \in DOMAIN entry.edge_types :
        Rel(entry.path[i], entry.path[i + 1], entry.edge_types[i]) \in Range(store_relations)

\* C19: every returned path starts at source, ends at target, has one edge
\* type fewer than nodes, reports the number of edge types as its length, and
\* each step is a stored relation of the listed type.
C19_PathsWellFormed ==
    PfActive => \A i \in DOMAIN pf.paths : WellFormedPath(pf.paths[i], pf.source, pf.target)

\* C19 witness: a returned path of two steps with two different edge types.
C19_Witness ==
    /\ PfActive
    /\ pf.pc = "done"
    /\ \E i \in DOMAIN pf.paths :
        /\ pf.paths[i].length = 2
        /\ pf.paths[i].edge_types[1] # pf.paths[i].edge_types[2]

\* the routes that leave w by one more stored relation; a route that stands
\* at t is not continued
RouteSteps(w, t) ==
    IF w.path[Len(w.path)] = t THEN {}
    ELSE {[path |-> Append(w.path, r.to_entity),
           edge_types |-> Append(w.edge_types, r.relation_type),
           length |-> w.length + 1] :
              r \in {x \in Range(store_relations) : x.from_entity = w.path[Len(w.path)]}}

\* the directed routes from s of at most n nodes that end at t and do not
\* meet t before their end; nodes other than t may repeat
RoutesWithin(s, t, n) ==
    LET F[k \in 1..n] ==
            IF k = 1 THEN {TrivialPath(s)}
            ELSE F[k - 1] \cup UNION {RouteSteps(w, t) : w \in F[k - 1]}
    IN {w \in F[n] : w.path[Len(w.path)] = t}

\* the nodes of a route between its first and its last
Intermediate(w) == {w.path[i] : i \in 2..(Len(w.path) - 1)}

\* the routes of R that pass through a node another route of R passes through
RoutesSharingNode(R) ==
    {w \in R : \E v \in R \ {w} : Intermediate(w) \cap Intermediate(v) # {}}

C25_CompleteWithinMaxDepthEdges ==
    (PfActive /\ pf.pc = "done" /\ pf.status = "ok"
     /\ RoutesWithin(pf.source, pf.target, pf.max_depth + 1) # {}) =>
        pf.paths # <<>>

\* the paths of the answer come in non-decreasing order of length
LengthAscending(paths) ==
    \A i, j \in DOMAIN paths : i < j => paths[i].length <= paths[j].length

\* C26: the returned paths are in non-decreasing order of length, and the
\* first of them is as short as any directed route the search can reach (the
\* routes of at most max_depth nodes).
C26_ShortestFirst ==
    (PfActive /\ pf.pc = "done" /\ pf.status = "ok") =>
        /\ LengthAscending(pf.paths)
        /\ \A w \in RoutesWithin(pf.source, pf.target, pf.max_depth) :
            /\ pf.paths # <<>>
            /\ pf.paths[1].length <= w.length

\* C26 witness: the answer holds a path of one edge before a path of two
\* edges, both to the same target.
C26_Witness ==
    /\ PfActive
    /\ pf.pc = "done"
    /\ Len(pf.paths) >= 2
    /\ pf.paths[1].length = 1
    /\ pf.paths[Len(pf.paths)].length >= 2

\* C27 (as claimed): no returned path holds the same entity twice.
C27_PathsAreSimple ==
    PfActive =>
        \A i \in DOMAIN pf.paths :
            \A a, b \in DOMAIN pf.paths[i].path :
                a # b => pf.paths[i].path[a] # pf.paths[i].path[b]

(***************************************************************************)
(* Properties of the cluster analyzer (checked under SpecClusters).        *)
(***************************************************************************)
ClScanned == cl.pc \in {"report", "done"}

\* C9 (as claimed): the discovered components partition the fetched entities:
\* every fetched entity is in exactly one component, no name is in two, and
\* the union of all components, reported or not, is the set of fetched names.
C9_ComponentsPartitionFetched ==
    ClScanned =>
        /\ \A n \in Range(cl.entities) :
            Cardinality({m \in DOMAIN cl.components : n \in cl.components[m]}) = 1
        /\ \A a, b \in DOMAIN cl.components :
            a # b => cl.components[a] \cap cl.components[b] = {}
        /\ UNION Range(cl.components) = Range(cl.entities)

\* a component the scan retained is among the reported clusters
Reported(component) ==
    \E k \in DOMAIN cl.cluster_info :
        /\ cl.cluster_info[k].nodes \subseteq component
        /\ cl.cluster_info[k].size = Cardinality(component)

\* C10: the returned cluster list holds only clusters of size >= the minimum,
\* at most 10 of them, largest first, and no retained component left out is
\* larger than a returned one; the scenario store with minimum 2 yields the
\* single cluster {A, B, C, D} of size 4.
C10_ClustersFilteredSortedCapped ==
    cl.pc = "done" =>
        /\ \A k \in DOMAIN cl.cluster_info :
            cl.cluster_info[k].size >= cl.min_cluster_size
        /\ Len(cl.cluster_info) <= TopClusters
        /\ \A k \in DOMAIN cl.cluster_info :
            k < Len(cl.cluster_info) =>
                cl.cluster_info[k].size >= cl.cluster_info[k + 1].size
        /\ \A m \in DOMAIN cl.components :
            (Cardinality(cl.components[m]) >= cl.min_cluster_size
             /\ ~Reported(cl.components[m])) =>
                \A k \in DOMAIN cl.cluster_info :
                    cl.cluster_info[k].size >= Cardinality(cl.components[m])
        /\ (ScenarioStore /\ cl.min_cluster_size = 2) =>
               cl.cluster_info = <<[size |-> 4, nodes |-> {"A", "B", "C", "D"}]>>

\* C10 witness: more than 10 components were retained, the largest was found
\* last, and the answer lists 10 clusters with it in front.
C10_Witness ==
    /\ cl.pc = "done"
    /\ Len(cl.clusters) > TopClusters
    /\ Len(cl.cluster_info) = TopClusters
    /\ cl.cluster_info[1].size > cl.cluster_info[TopClusters].size
    /\ Cardinality(cl.components[Len(cl.components)]) = cl.cluster_info[1].size

\* names of the clusters the answer lists (the first ten retained ones)
ReportedNames == UNION Range(TopOf(cl.clusters))

\* C11 (as claimed): isolated_nodes is the number of fetched entities that are
\* in no reported cluster (singletons and members of components below the
\* minimum included), and it is never negative.
C11_IsolatedCountsUnreported ==
    cl.pc = "done" =>
        /\ cl.isolated_nodes = Cardinality(Range(cl.entities) \ ReportedNames)
        /\ cl.isolated_nodes >= 0

\* C12 (as claimed): a relation with an end that is no fetched entity adds no
\* member to a cluster and changes no size: every name of a reported cluster
\* is a fetched entity and the reported size counts fetched entities only.
C12_PhantomEndsExcluded ==
    cl.pc = "done" =>
        /\ cl.status = "ok"
        /\ \A k \in DOMAIN cl.cluster_info :
            /\ cl.cluster_info[k].nodes \subseteq Range(cl.entities)
            /\ cl.cluster_info[k].size =
                   Cardinality(TopOf(cl.clusters)[k] \cap Range(cl.entities))

(***************************************************************************)
(* The engine as a whole: one request of any kind, run to its end.  A      *)
(* handler that has a next statement executes it, which is weak fairness   *)
(* of the step relation.                                                   *)
(***************************************************************************)
\* Stores for the runs to the end: every prefix of the relation pool, from
\* the empty graph over the scenario's tree to the full pool with its
\* three-cycle, self-loop, parallel edge and two-cycle, under every choice of
\* the names that resolve.
LoopStore ==
    \E E \in EntitySets, k \in 0..Len(RelationPool) :
        /\ store_entities = PickEntities(E)
        /\ store_relations = SubSeq(RelationPool, 1, k)

InitEngine ==
    /\ LoopStore
    /\ NoSearch
    /\ NoSockets
    /\ \/ /\ \E f \in Names \cup {NoEntity}, t \in TypeFilters, d \in 1..MaxDepth, l \in Limits :
                sg = SgRequest(f, t, d, l)
          /\ cl = Idle /\ pf = Idle /\ lk = Idle
       \/ /\ \E s \in Names, t \in Names, d \in 0..MaxPathDepth : pf = PfRequest(s, t, d)
          /\ sg = Idle /\ cl = Idle /\ lk = Idle
       \/ /\ \E op \in {"get_entity", "get_entity_relations"}, n \in Names :
                lk = LkRequest(op, n)
          /\ sg = Idle /\ cl = Idle /\ pf = Idle
       \/ /\ \E m \in 2..MaxMinSize : cl = ClRequest(m)
          /\ sg = Idle /\ pf = Idle /\ lk = Idle

NextEngine == NextSubgraph \/ NextPaths \/ NextClusters

SpecEngineFair == InitEngine /\ [][NextEngine]_vars /\ WF_vars(NextEngine)

EngineDone == sg.pc = "done" \/ cl.pc = "done" \/ pf.pc = "done" \/ lk.pc = "done"

\* C14: every engine loop ends after finitely many steps on every finite
\* relation graph, cycles and self-loops included: the focus walk hands over
\* to the response, the component scan to the sort, the breadth-first search
\* to the answer, and every request is answered.
C14_EveryLoopTerminates ==
    /\ (sg.pc = "walk") ~> (sg.pc = "respond")
    /\ (cl.pc = "scan") ~> (cl.pc = "report")
    /\ (pf.pc = "bfs") ~> (pf.pc = "done")
    /\ <>EngineDone

\* C14 witness: a path search on the full relation pool, which holds a
\* three-cycle, a two-cycle and a self-loop, ran until its queue was empty and
\* answered with fewer paths than the cap.
C14_Witness ==
    /\ pf.pc = "done"
    /\ pf.status = "ok"
    /\ store_relations = RelationPool
    /\ pf.queue = <<>>
    /\ pf.paths # <<>>
    /\ Len(pf.paths) < MaxPaths
    /\ pf.max_depth >= 3

(***************************************************************************)
(* Properties of Search (checked under SpecSearch).                        *)
(***************************************************************************)
\* search_similar has answered: the scored list exists
SrScored == sr.pc = "respond" \/ (sr.pc = "done" /\ sr.status = "ok")

ScoreDescending(scored) ==
    \A i \in DOMAIN scored : i < Len(scored) => scored[i].score >= scored[i + 1].score

C16_PageOfScoredList ==
    (sr.pc = "done" /\ sr.status = "ok") =>
        /\ Len(sr.page) <= sr.limit
        /\ Len(sr.page) =
               IF Len(sr.results) <= sr.offset THEN 0
               ELSE Min(sr.limit, Len(sr.results) - sr.offset)
        /\ \A k \in DOMAIN sr.page : sr.page[k] = sr.results[sr.offset + k]
        /\ sr.total = Len(sr.results)

\* C16 witness: a page that starts behind the first scored entry.
C16_Witness ==
    /\ sr.pc = "done" /\ sr.status = "ok"
    /\ sr.offset = 1
    /\ sr.total = 2
    /\ sr.page = <<sr.results[2]>>
    /\ sr.results[1] # sr.results[2]

\* C30: the page holds at most max(0, limit - offset) results and `total` is
\* at most limit, because the scored list holds at most limit entries before
\* it is sliced; a request with offset >= limit gets an empty page however
\* many matches the store holds.
C30_PageWithinLimitMinusOffset ==
    (sr.pc = "done" /\ sr.status = "ok") =>
        /\ Len(sr.page) <= (IF sr.limit > sr.offset THEN sr.limit - sr.offset ELSE 0)
        /\ sr.total <= sr.limit
        /\ (sr.offset >= sr.limit => sr.page = <<>>)

\* C30 witness: the store holds more convertible matches than offset + limit
\* reaches, the offset is not below the limit, and the page is empty.
C30_Witness ==
    /\ sr.pc = "done" /\ sr.status = "ok"
    /\ sr.offset >= sr.limit
    /\ Len(ConvertHits(store_hits)) > sr.offset
    /\ sr.total = sr.limit
    /\ sr.page = <<>>

\* C17: a search that names a collection the store does not hold ends with
\* NotFound; a search that names none ends with NotFound when the store lists
\* no collection (and answers the listing), and otherwise searches the first
\* listed collection.
C17_MissingCollectionNotFound ==
    /\ (sr.pc = "done" /\ sr.requested # NoCollection /\ ~CollectionExists(sr.requested)) =>
           sr.status = "not_found"
    /\ (sr.pc = "done" /\ sr.requested = NoCollection /\ store_collections = <<>>
        /\ ~sr.store_failed) =>
           sr.status = "not_found"
    /\ (SrScored /\ sr.requested = NoCollection) =>
           /\ store_collections # <<>>
           /\ sr.collection = store_collections[1]

\* C17 witness: no collection named, two listed, the first one searched.
C17_Witness ==
    /\ sr.pc = "done" /\ sr.status = "ok"
    /\ sr.requested = NoCollection
    /\ Len(store_collections) = 2
    /\ sr.collection = "docs"

\* C18 (as claimed): a failure of the store during an operation reaches the
\* caller as a store-failure error, never as a success and never as NotFound.
C18_StoreFailurePropagates ==
    (sr.pc = "done" /\ sr.store_failed) => sr.status = "error"

(***************************************************************************)
(* Properties of the real-time updates (checked under SpecSockets).        *)
(***************************************************************************)
\* C22: a step in which a handler ends and calls disconnect(c) leaves c
\* without a key in active_connections and outside every subscription set,
\* and leaves the connection and the subscriptions of every other client as
\* they were.
C22_DisconnectRemovesOnlyClient ==
    [][\A w \in Sockets :
          (mg.sockets[w].state # "closed" /\ mg'.sockets[w].state = "closed") =>
              LET c == mg.sockets[w].client_id
              IN /\ ~Connected(mg', c)
                 /\ \A k \in Channels : c \notin mg'.subscriptions[k]
                 /\ \A d \in ClientIds \ {c} :
                        mg'.active_connections[d] = mg.active_connections[d]
                 /\ \A k \in Channels :
                        mg'.subscriptions[k] \ {c} = mg.subscriptions[k] \ {c}]_vars

\* C22 witness: a handler ended and took its client out of a collection that
\* another, still connected client stays subscribed to.
C22_Witness ==
    /\ mg.dropped # {}
    /\ \E w \in Sockets, d \in ClientIds, k \in mg.dropped :
        /\ mg.sockets[w].state = "closed"
        /\ d # mg.sockets[w].client_id
        /\ ~Connected(mg, mg.sockets[w].client_id)
        /\ Connected(mg, d)
        /\ d \in mg.subscriptions[k]

\* C23 (as claimed): a broadcast ends without error and has sent the message
\* exactly once to every client that stayed subscribed and connected from its
\* start to its end, whatever other clients did at its await points.
C23_BroadcastReachesSteadyClients ==
    bc.pc = "done" =>
        /\ bc.status = "ok"
        /\ \A c \in bc.steady :
            Cardinality({i \in DOMAIN bc.sent : bc.sent[i].client_id = c}) = 1

\* C24 (as claimed): clients_notified is the number of clients the message
\* was sent to successfully.
C24_NotifiedCountsSends ==
    (bc.pc = "done" /\ bc.status = "ok") => bc.client_count = Len(bc.sent)

\* C29 (as claimed): every client id in a subscription set is a key of
\* active_connections, in every state the handlers can reach.
C29_SubscribersAreConnected ==
    \A k \in Channels : \A c \in mg.subscriptions[k] : Connected(mg, c)

====
